---- MODULE Spec2Model ----
(***************************************************************************)
(* A model of the pika store: the facade Db (src/src/db/mod.rs) over the   *)
(* Merkle Search Tree engine (src/src/mst.rs) and the Prolly Tree engine   *)
(* (src/src/pt.rs), with the content-addressed REPO table, the EAV index   *)
(* and the REFS table.                                                     *)
(*                                                                         *)
(* Strings are sequences of bytes.  A key is the pair <<entity,attribute>>.*)
(* BLAKE3 is modelled as an ideal (collision free) hash: the digest of a   *)
(* blob is the tagged blob.  calc_level, which is BLAKE3 of the key bytes, *)
(* is an arbitrary function of the key, fixed when the behaviour starts.   *)
(* The rolling hash of the Prolly Tree is computed bit for bit.            *)
(***************************************************************************)
EXTENDS Integers, Sequences, FiniteSets, TLC

VARIABLES level, made, opts, db, eav, repo, refs, log, last, wtx, rtx, rolling, fed

vars == <<level, made, opts, db, eav, repo, refs, log, last, wtx, rtx, rolling, fed>>

(***************************************************************************)
(* Bounds of the model.                                                    *)
(***************************************************************************)
MaxWrites == 4
MaxLevel == 2
ConcWrites == 2
ConcMaxLevel == 1
OpenWrites == 2
ShortWrites == 3

(***************************************************************************)
(* Strings, keys, values.                                                  *)
(***************************************************************************)
\* Option::None, set apart from every byte string (bytes are 0..255)
None == <<-1>>

Key_an == << <<97>>, <<110>> >>
Key_ax == << <<97>>, <<120>> >>
Key_tx == << <<116>>, <<120>> >>
Key_wx == << <<119>>, <<120>> >>
Key_xx == << <<120>>, <<120>> >>

Keys == {Key_an, Key_ax, Key_tx, Key_wx, Key_xx}

Values == {<<49>>, <<50>>}

Engines == {"Mst", "Pt"}

\* the value given to a key by its first write
FirstValue == <<49>>

KeysOf(engine) == IF engine = "Mst" THEN {Key_an, Key_tx, Key_wx} ELSE Keys

ROOT_REF_NAME == "root"

\* the names of the tables of the page store (db/table.rs, db/option.rs)
EAV_TABLE == "eav"
REPO_TABLE == "repo"
REFS_TABLE == "refs"
OPTION_TABLE == "option"

Min(S) == CHOOSE x \in S : \A y \in S : x <= y

Max(S) == CHOOSE x \in S : \A y \in S : x >= y

\* the value of the most recent committed write to key, None if there is none
LastWritten(lg, key) ==
    LET is == {i \in 1..Len(lg) : lg[i][1] = key}
    IN  IF is = {} THEN None ELSE lg[Max(is)][2]

\* <str as Ord>::cmp on the bytes of two strings
StrCompare(s, t) ==
    LET ByLen == IF Len(s) < Len(t) THEN "Less"
                 ELSE IF Len(s) > Len(t) THEN "Greater"
                 ELSE "Equal"
        At(i) == IF s[i] < t[i] THEN "Less" ELSE "Greater"
        Decide(d) == IF d # {} THEN At(Min(d)) ELSE ByLen
    IN  Decide({i \in 1..Min({Len(s), Len(t)}) : s[i] # t[i]})

\* K::compare for K = (String, String): element by element
KeyCompare(k1, k2) ==
    LET Then(c) == IF c # "Equal" THEN c ELSE StrCompare(k1[2], k2[2])
    IN  Then(StrCompare(k1[1], k2[1]))

\* K::as_bytes for K = (String, String): the length of the first element as
\* a little-endian u32, then the bytes of both elements.  A key of type
\* String, the key type of the tests of pt.rs, is written as the pair of the
\* string and the empty sequence; its bytes are the bytes of the string.
KeyBytes(k) ==
    IF k[2] = <<>> THEN k[1]
    ELSE <<Len(k[1]) % 256, (Len(k[1]) \div 256) % 256, 0, 0>> \o k[1] \o k[2]

(***************************************************************************)
(* Node codec (postcard) and hashing.  A blob is a sequence of tokens:     *)
(* <<"n", len>> a sequence length, <<"v", i>> an enum variant index,       *)
(* <<"s", bytes>> a length-prefixed string, <<"h", hash>> 32 raw bytes.    *)
(***************************************************************************)
Blake3(blob) == <<"blake3", blob>>

MstPayload(k, v) == [type |-> "Payload", key |-> k, value |-> v]
MstRef(h) == [type |-> "Ref", hash |-> h]

PtPayload(k, v) == [type |-> "Payload", key |-> k, value |-> v]
\* a PtItem::Ref whose key is not the first key of its chunk
PtRefOtherKey(k, h) == [type |-> "Ref", key |-> Key_xx, hash |-> h]

PtRef(k, h) == [type |-> "Ref", key |-> k, hash |-> h]

MstEncodeItem(it) ==
    IF it.type = "Payload"
    THEN << <<"v", 0>>, <<"s", it.key[1]>>, <<"s", it.key[2]>>, <<"s", it.value>> >>
    ELSE << <<"v", 1>>, <<"h", it.hash>> >>

PtEncodeItem(it) ==
    IF it.type = "Payload"
    THEN << <<"v", 0>>, <<"s", it.key[1]>>, <<"s", it.key[2]>>, <<"s", it.value>> >>
    ELSE << <<"v", 1>>, <<"s", it.key[1]>>, <<"s", it.key[2]>>, <<"h", it.hash>> >>

RECURSIVE MstEncodeItems(_)
MstEncodeItems(items) ==
    IF items = <<>> THEN <<>>
    ELSE MstEncodeItem(Head(items)) \o MstEncodeItems(Tail(items))

\* the items lo..hi of a node, in order
RECURSIVE PtEncodeItems(_, _, _)
PtEncodeItems(items, lo, hi) ==
    LET Halves(mid) == PtEncodeItems(items, lo, mid) \o PtEncodeItems(items, mid + 1, hi)
    IN  IF lo > hi THEN <<>>
        ELSE IF lo = hi THEN PtEncodeItem(items[lo])
        ELSE Halves((lo + hi) \div 2)

\* postcard::to_stdvec(&MstNode)
MstEncode(node) == << <<"n", Len(node)>> >> \o MstEncodeItems(node)

\* postcard::to_stdvec(&PtNode)
PtEncode(node) == << <<"n", Len(node)>> >> \o PtEncodeItems(node, 1, Len(node))

IsTok(blob, pos, tag) == pos <= Len(blob) /\ blob[pos][1] = tag

\* postcard::from_bytes::<MstNode>: the items from token pos on, n to read
RECURSIVE MstDecodeItems(_, _, _)
MstDecodeItems(blob, pos, n) ==
    LET Bad == [ok |-> FALSE, node |-> <<>>]
        Cons(item, rest) == [ok |-> rest.ok, node |-> <<item>> \o rest.node]
    IN  IF n = 0 THEN [ok |-> TRUE, node |-> <<>>]
        ELSE IF ~IsTok(blob, pos, "v") THEN Bad
        ELSE IF blob[pos][2] = 0
        THEN IF IsTok(blob, pos + 1, "s") /\ IsTok(blob, pos + 2, "s") /\ IsTok(blob, pos + 3, "s")
             THEN Cons(MstPayload(<<blob[pos + 1][2], blob[pos + 2][2]>>, blob[pos + 3][2]),
                       MstDecodeItems(blob, pos + 4, n - 1))
             ELSE Bad
        ELSE IF blob[pos][2] = 1
        THEN IF IsTok(blob, pos + 1, "h")
             THEN Cons(MstRef(blob[pos + 1][2]), MstDecodeItems(blob, pos + 2, n - 1))
             ELSE Bad
        ELSE Bad

MstDecode(blob) ==
    IF IsTok(blob, 1, "n") THEN MstDecodeItems(blob, 2, blob[1][2])
    ELSE [ok |-> FALSE, node |-> <<>>]

\* postcard::from_bytes::<PtNode>: n more items are read; st holds the
\* position of the next token and the items read so far.  The first half of
\* the items is read, then, if that went well, the second half.
RECURSIVE PtDecodeItems(_, _, _)
PtDecodeItems(blob, st, n) ==
    LET Bad == [ok |-> FALSE, pos |-> st.pos, node |-> <<>>]
        Read(item) == [ok |-> TRUE, pos |-> st.pos + 4, node |-> Append(st.node, item)]
        One ==
            IF ~IsTok(blob, st.pos, "v") THEN Bad
            ELSE IF blob[st.pos][2] = 0
            THEN IF /\ IsTok(blob, st.pos + 1, "s")
                    /\ IsTok(blob, st.pos + 2, "s")
                    /\ IsTok(blob, st.pos + 3, "s")
                 THEN Read(PtPayload(<<blob[st.pos + 1][2], blob[st.pos + 2][2]>>,
                                     blob[st.pos + 3][2]))
                 ELSE Bad
            ELSE IF blob[st.pos][2] = 1
            THEN IF /\ IsTok(blob, st.pos + 1, "s")
                    /\ IsTok(blob, st.pos + 2, "s")
                    /\ IsTok(blob, st.pos + 3, "h")
                 THEN Read(PtRef(<<blob[st.pos + 1][2], blob[st.pos + 2][2]>>,
                                 blob[st.pos + 3][2]))
                 ELSE Bad
            ELSE Bad
        Second(left, m) == IF left.ok THEN PtDecodeItems(blob, left, n - m) ELSE left
        Halves(m) == Second(PtDecodeItems(blob, st, m), m)
    IN  IF n = 0 THEN st
        ELSE IF n = 1 THEN One
        ELSE Halves(n \div 2)

PtDecode(blob) ==
    LET Out(st) == [ok |-> st.ok, node |-> st.node]
    IN  IF IsTok(blob, 1, "n")
        THEN Out(PtDecodeItems(blob, [ok |-> TRUE, pos |-> 2, node |-> <<>>], blob[1][2]))
        ELSE [ok |-> FALSE, node |-> <<>>]

(***************************************************************************)
(* Results of the engine operations: err is "ok" or the error kind.        *)
(***************************************************************************)
Ok == "ok"

\* MstPutNode that does not store an empty node
MstPutNodeSkipEmpty(rp, node) ==
    LET Stored(encoded, node_hash) ==
            [repo |-> IF node_hash \in DOMAIN rp \/ node = <<>> THEN rp
                      ELSE (node_hash :> encoded) @@ rp,
             hash |-> node_hash]
        Hashed(encoded) == Stored(encoded, Blake3(encoded))
    IN  Hashed(MstEncode(node))

\* MstNode::put_node_to_repo that keeps no entry but the one it stores
MstPutNodeAlone(rp, node) ==
    LET Stored(encoded, node_hash) ==
            [repo |-> (node_hash :> encoded),
             hash |-> node_hash]
        Hashed(encoded) == Stored(encoded, Blake3(encoded))
    IN  Hashed(MstEncode(node))

\* MstNode::put_node_to_repo
MstPutNode(rp, node) ==
    LET Stored(encoded, node_hash) ==
            [repo |-> IF node_hash \in DOMAIN rp THEN rp ELSE (node_hash :> encoded) @@ rp,
             hash |-> node_hash]
        Hashed(encoded) == Stored(encoded, Blake3(encoded))
    IN  Hashed(MstEncode(node))

\* MstNode::load over MstNode::get_node_from_repo
MstLoad(rp, h) ==
    LET Decoded(d) == IF d.ok THEN [err |-> Ok, node |-> d.node]
                      ELSE [err |-> "PostcardError", node |-> <<>>]
    IN  IF h \notin DOMAIN rp THEN [err |-> "RefNotFound", node |-> <<>>]
        ELSE Decoded(MstDecode(rp[h]))

(***************************************************************************)
(* Merkle Search Tree engine (src/src/mst.rs).  A node is the sequence of  *)
(* its items; positions are 0-based as in the source, item i is            *)
(* node[i + 1].                                                            *)
(***************************************************************************)
NoLevel == -1
NoIdx == -1

\* Vec::splice(idx..idx + 1, new)
Splice(items, idx, new) ==
    SubSeq(items, 1, idx) \o new \o SubSeq(items, idx + 2, Len(items))

\* Vec::insert that puts the item after all others
InsertAtEnd(items, idx, item) == Append(items, item)

\* Vec::insert(idx, item)
InsertAt(items, idx, item) ==
    SubSeq(items, 1, idx) \o <<item>> \o SubSeq(items, idx + 1, Len(items))

\* MstNode::calc_level: BLAKE3 of the key bytes, leading zeros / 3
CalcLevel(key) == level[key]

\* MstNode::estimate_level that finds no payload in any node
EstimateLevelNone(node) == NoLevel

\* MstNode::estimate_level: the level of the first payload, if any
EstimateLevel(node) ==
    LET First(ps) == IF ps = {} THEN NoLevel ELSE CalcLevel(node[Min(ps)].key)
    IN  First({i \in 1..Len(node) : node[i].type = "Payload"})

\* MstNode::find
RECURSIVE MstFind(_, _, _)
MstFind(rp, node, key) ==
    LET n == Len(node)
        Absent == [err |-> Ok, value |-> None]
        In(child) == IF child.err # Ok THEN [err |-> child.err, value |-> None]
                     ELSE MstFind(rp, child.node, key)
        Descend(h) == In(MstLoad(rp, h))
        \* the first payload not less than key is item i
        At(i) == IF KeyCompare(key, node[i + 1].key) = "Equal"
                 THEN [err |-> Ok, value |-> node[i + 1].value]
                 ELSE IF i > 0 /\ node[i].type = "Ref"
                 THEN Descend(node[i].hash)
                 ELSE Absent
        Scan(stop) == IF stop # {} THEN At(Min(stop))
                      ELSE IF n > 0 /\ node[n].type = "Ref"
                      THEN Descend(node[n].hash)
                      ELSE Absent
    IN  Scan({i \in 0..(n - 1) : /\ node[i + 1].type = "Payload"
                                 /\ KeyCompare(key, node[i + 1].key) # "Greater"})

\* MstNode::split that never splits a child: the Ref at the split point goes
\* to the left half whole
MstSplitNoDescent(rp, node, split_key) ==
    LET n == Len(node)
        Halves(l, r) == [err |-> Ok, repo |-> r.repo, left |-> l.hash, right |-> r.hash]
        PutRight(l, right_node) == Halves(l, MstPutNode(l.repo, right_node))
        Finish(rp1, left_node, right_node) == PutRight(MstPutNode(rp1, left_node), right_node)
        At(split_index) == Finish(rp, SubSeq(node, 1, split_index), SubSeq(node, split_index + 1, n))
        SplitIndex(greater) == IF greater = {} THEN n ELSE Min(greater)
    IN  At(SplitIndex({i \in 0..(n - 1) :
                          /\ node[i + 1].type = "Payload"
                          /\ KeyCompare(node[i + 1].key, split_key) = "Greater"}))

\* MstNode::split
RECURSIVE MstSplit(_, _, _)
MstSplit(rp, node, split_key) ==
    LET n == Len(node)
        Halves(l, r) == [err |-> Ok, repo |-> r.repo, left |-> l.hash, right |-> r.hash]
        PutRight(l, right_node) == Halves(l, MstPutNode(l.repo, right_node))
        Finish(rp1, left_node, right_node) == PutRight(MstPutNode(rp1, left_node), right_node)
        Joined(s, before, after) ==
            IF s.err # Ok THEN s
            ELSE Finish(s.repo, before \o <<MstRef(s.left)>>, <<MstRef(s.right)>> \o after)
        SplitChild(child, before, after) ==
            IF child.err # Ok
            THEN [err |-> child.err, repo |-> rp, left |-> None, right |-> None]
            ELSE Joined(MstSplit(rp, child.node, split_key), before, after)
        RefToSplitIdx(split_index) ==
            IF split_index > 0
            THEN (IF node[split_index].type = "Ref" THEN split_index - 1 ELSE NoIdx)
            ELSE IF n > 0 /\ node[1].type = "Ref" THEN 0 ELSE NoIdx
        Cut(split_index, ref_to_split_idx) ==
            IF ref_to_split_idx # NoIdx
            THEN SplitChild(MstLoad(rp, node[ref_to_split_idx + 1].hash),
                            SubSeq(node, 1, ref_to_split_idx),
                            SubSeq(node, ref_to_split_idx + 2, n))
            ELSE Finish(rp, SubSeq(node, 1, split_index), SubSeq(node, split_index + 1, n))
        At(split_index) == Cut(split_index, RefToSplitIdx(split_index))
        SplitIndex(greater) == IF greater = {} THEN n ELSE Min(greater)
    IN  At(SplitIndex({i \in 0..(n - 1) :
                          /\ node[i + 1].type = "Payload"
                          /\ KeyCompare(node[i + 1].key, split_key) = "Greater"}))

\* the scan of MstNode::insert_local (mst.rs 202-233), from item i on
RECURSIVE InsertLocalScan(_, _, _, _, _)
InsertLocalScan(items, key, i, insert_pos, prev_was_ref) ==
    LET Payload(c) ==
            IF c = "Equal"
            THEN [found |-> TRUE, at |-> i, insert_pos |-> insert_pos,
                  split_target_idx |-> NoIdx]
            ELSE IF c = "Less"
            THEN [found |-> FALSE, at |-> NoIdx, insert_pos |-> i,
                  split_target_idx |-> IF i > 0 /\ prev_was_ref THEN i - 1 ELSE NoIdx]
            ELSE InsertLocalScan(items, key, i + 1, i + 1, FALSE)
    IN  IF i >= Len(items)
        THEN [found |-> FALSE, at |-> NoIdx, insert_pos |-> insert_pos,
              split_target_idx |-> NoIdx]
        ELSE IF items[i + 1].type = "Payload"
        THEN Payload(KeyCompare(key, items[i + 1].key))
        ELSE InsertLocalScan(items, key, i + 1,
                             IF insert_pos = i THEN i + 1 ELSE insert_pos, TRUE)

\* MstNode::insert_local
MstInsertLocal(rp, node, key, value) ==
    LET Spliced(idx, s) ==
            IF s.err # Ok THEN [err |-> s.err, repo |-> rp, node |-> node]
            ELSE [err |-> Ok, repo |-> s.repo,
                  node |-> Splice(node, idx, <<MstRef(s.left), MstPayload(key, value),
                                               MstRef(s.right)>>)]
        SplitChild(idx, child) ==
            IF child.err # Ok THEN [err |-> child.err, repo |-> rp, node |-> node]
            ELSE Spliced(idx, MstSplit(rp, child.node, key))
        \* the trailing reference is the split target of an insert at the end
        SplitTarget(sc) ==
            IF sc.insert_pos = Len(node) /\ node # <<>> /\ node[Len(node)].type = "Ref"
            THEN Len(node) - 1
            ELSE sc.split_target_idx
        Place(sc, split_target_idx) ==
            IF sc.found
            THEN [err |-> Ok, repo |-> rp,
                  node |-> [node EXCEPT ![sc.at + 1] = MstPayload(node[sc.at + 1].key, value)]]
            ELSE IF split_target_idx # NoIdx
            THEN SplitChild(split_target_idx, MstLoad(rp, node[split_target_idx + 1].hash))
            ELSE [err |-> Ok, repo |-> rp,
                  node |-> InsertAt(node, sc.insert_pos, MstPayload(key, value))]
        Scanned(sc) == Place(sc, SplitTarget(sc))
    IN  Scanned(InsertLocalScan(node, key, 0, 0, FALSE))

\* ChildIdx that does not look for a reference before the payload
ChildIdxNoPrecedingRef(node, key) ==
    LET n == Len(node)
        First(less) == IF less # {} THEN Min(less)
                       ELSE IF n > 0 /\ node[n].type = "Ref" THEN n - 1 ELSE n
    IN  First({i \in 0..(n - 1) : /\ node[i + 1].type = "Payload"
                                  /\ KeyCompare(key, node[i + 1].key) = "Less"})

\* the child index chosen by MstNode::insert_into_child (mst.rs 279-309)
ChildIdx(node, key) ==
    LET n == Len(node)
        Before(i) == IF i > 0 /\ node[i].type = "Ref" THEN i - 1 ELSE i
        First(less) == IF less # {} THEN Before(Min(less))
                       ELSE IF n > 0 /\ node[n].type = "Ref" THEN n - 1 ELSE n
    IN  First({i \in 0..(n - 1) : /\ node[i + 1].type = "Payload"
                                  /\ KeyCompare(key, node[i + 1].key) = "Less"})

RECURSIVE MstUpsert(_, _, _, _)
RECURSIVE MstInsertIntoChild(_, _, _, _)

\* MstNode::insert_into_child
MstInsertIntoChild(rp, node, key, value) ==
    LET Linked(idx, is_ref, u) ==
            IF u.err # Ok THEN [err |-> u.err, repo |-> rp, node |-> node]
            ELSE [err |-> Ok, repo |-> u.repo,
                  node |-> IF idx < Len(node)
                           THEN (IF is_ref
                                 THEN [node EXCEPT ![idx + 1] = MstRef(u.hash)]
                                 ELSE InsertAt(node, idx, MstRef(u.hash)))
                           ELSE Append(node, MstRef(u.hash))]
        Into(idx, is_ref, child) ==
            IF child.err # Ok THEN [err |-> child.err, repo |-> rp, node |-> node]
            ELSE Linked(idx, is_ref, MstUpsert(rp, child.node, key, value))
        Child(idx, is_ref) ==
            Into(idx, is_ref, IF is_ref THEN MstLoad(rp, node[idx + 1].hash)
                              ELSE [err |-> Ok, node |-> <<>>])
        At(idx) == Child(idx, idx < Len(node) /\ node[idx + 1].type = "Ref")
    IN  At(ChildIdx(node, key))

\* MstNode::upsert: the new node is put to the repo and its hash returned
MstUpsert(rp, node, key, value) ==
    LET Stored(p) == [err |-> Ok, repo |-> p.repo, hash |-> p.hash]
        Put(r) == IF r.err # Ok THEN [err |-> r.err, repo |-> rp, hash |-> None]
                  ELSE Stored(MstPutNode(r.repo, r.node))
        NewRoot(s) ==
            IF s.err # Ok THEN [err |-> s.err, repo |-> rp, hash |-> None]
            ELSE Put([err |-> Ok, repo |-> s.repo,
                      node |-> <<MstRef(s.left), MstPayload(key, value), MstRef(s.right)>>])
        NodeLevel(req_level, est) == IF est = NoLevel THEN req_level ELSE est
        Dispatch(req_level, node_level) ==
            IF req_level > node_level THEN NewRoot(MstSplit(rp, node, key))
            ELSE IF req_level = node_level THEN Put(MstInsertLocal(rp, node, key, value))
            ELSE Put(MstInsertIntoChild(rp, node, key, value))
        Levels(req_level) == Dispatch(req_level, NodeLevel(req_level, EstimateLevel(node)))
    IN  Levels(CalcLevel(key))

(***************************************************************************)
(* Prolly Tree engine (src/src/pt.rs).  A u32 is the pair <<hi, lo>> of    *)
(* its 16-bit halves.                                                      *)
(***************************************************************************)
WINDOW_SIZE == 32
CHUNK_MODULUS == 64

Half == 65536

\* u32::rotate_left(1)
RotateLeft1(x) ==
    <<((2 * x[1]) % Half) + (x[2] \div 32768), ((2 * x[2]) % Half) + (x[1] \div 32768)>>

\* u32::wrapping_sub of a byte
WrappingSub(x, b) ==
    IF x[2] >= b THEN <<x[1], x[2] - b>>
    ELSE <<(x[1] + Half - 1) % Half, x[2] + Half - b>>

\* u32::wrapping_add of a byte
WrappingAdd(x, b) ==
    IF x[2] + b < Half THEN <<x[1], x[2] + b>>
    ELSE <<(x[1] + 1) % Half, x[2] + b - Half>>

\* RollingHash::new
RollingHashNew == [window |-> [i \in 1..WINDOW_SIZE |-> 0], pos |-> 0, sum |-> <<0, 0>>]

\* RollingHash::update
RollingHashUpdate(h, b) ==
    LET old == h.window[h.pos + 1]
    IN  [window |-> [h.window EXCEPT ![h.pos + 1] = b],
         pos |-> (h.pos + 1) % WINDOW_SIZE,
         sum |-> WrappingAdd(WrappingSub(RotateLeft1(h.sum), old), b)]

\* is_boundary with a modulus of 3
IsBoundaryOfThree(h) == (h.sum[1] + h.sum[2]) % 3 = 0

\* RollingHash::is_boundary
IsBoundary(h) == h.sum[2] % CHUNK_MODULUS = 0

\* the loop feeding the key bytes of one item (pt.rs 290-295)
RECURSIVE FeedBytes(_, _)
FeedBytes(h, bytes) ==
    IF bytes = <<>> THEN h
    ELSE FeedBytes(RollingHashUpdate(h, Head(bytes)), Tail(bytes))

\* PtNode::save that keeps no entry but the one it stores
PtSaveAlone(rp, node) ==
    LET Stored(encoded, node_hash) ==
            [repo |-> (node_hash :> encoded),
             hash |-> node_hash]
        Hashed(encoded) == Stored(encoded, Blake3(encoded))
    IN  Hashed(PtEncode(node))

\* PtNode::save
PtSave(rp, node) ==
    LET Stored(encoded, node_hash) ==
            [repo |-> IF node_hash \in DOMAIN rp THEN rp ELSE (node_hash :> encoded) @@ rp,
             hash |-> node_hash]
        Hashed(encoded) == Stored(encoded, Blake3(encoded))
    IN  Hashed(PtEncode(node))

\* PtNode::load over PtNode::get_node_from_repo
PtLoad(rp, h) ==
    LET Decoded(d) == IF d.ok THEN [err |-> Ok, node |-> d.node]
                      ELSE [err |-> "PostcardError", node |-> <<>>]
    IN  IF h \notin DOMAIN rp THEN [err |-> "RefNotFound", node |-> <<>>]
        ELSE Decoded(PtDecode(rp[h]))

\* one pass of the loop of PtNode::chunk_and_save over item (pt.rs 288-308);
\* st holds the table and the locals hasher, current_chunk, result_refs
ChunkStep(st, item) ==
    LET Cut(h1, chunk1, sv) ==
            [repo |-> sv.repo, hasher |-> h1, current_chunk |-> <<>>,
             result_refs |-> Append(st.result_refs, PtRef(chunk1[1].key, sv.hash))]
        Fed(h1, chunk1) ==
            IF IsBoundary(h1) /\ chunk1 # <<>>
            THEN Cut(h1, chunk1, PtSave(st.repo, chunk1))
            ELSE [repo |-> st.repo, hasher |-> h1, current_chunk |-> chunk1,
                  result_refs |-> st.result_refs]
    IN  Fed(FeedBytes(st.hasher, KeyBytes(item.key)), Append(st.current_chunk, item))

\* the passes of the loop over items lo..hi, in order: those of the first
\* half of the range, then, from the state they leave, those of the second
\* half, so that a long list is evaluated without nesting pass in pass
RECURSIVE ChunkLoop(_, _, _, _)
ChunkLoop(st, items, lo, hi) ==
    LET Second(mid, left) ==
            IF Len(left.result_refs) >= 0 THEN ChunkLoop(left, items, mid + 1, hi)
            ELSE left
        Halves(mid) == Second(mid, ChunkLoop(st, items, lo, mid))
    IN  IF lo > hi THEN st
        ELSE IF lo = hi THEN ChunkStep(st, items[lo])
        ELSE Halves((lo + hi) \div 2)

\* PtNode::chunk_and_save that never ends a chunk before the end of the list
PtChunkAndSaveWhole(rp, items) ==
    LET Saved(sv) == [repo |-> sv.repo, refs |-> <<PtRef(items[1].key, sv.hash)>>]
    IN  Saved(PtSave(rp, items))

\* PtNode::chunk_and_save
PtChunkAndSave(rp, items) ==
    LET Last(st, sv) ==
            [repo |-> sv.repo,
             refs |-> Append(st.result_refs, PtRef(st.current_chunk[1].key, sv.hash))]
        Flush(st) ==
            IF st.current_chunk # <<>> THEN Last(st, PtSave(st.repo, st.current_chunk))
            ELSE [repo |-> st.repo, refs |-> st.result_refs]
    IN  Flush(ChunkLoop([repo |-> rp, hasher |-> RollingHashNew, current_chunk |-> <<>>,
                         result_refs |-> <<>>], items, 1, Len(items)))

\* slice::partition_point on a partitioned slice: the first index at which
\* the predicate is false
PartitionPoint(items, P(_)) ==
    LET First(bad) == IF bad = {} THEN Len(items) ELSE Min(bad)
    IN  First({i \in 0..(Len(items) - 1) : ~P(items[i + 1])})

\* PtNode::find
RECURSIVE PtFind(_, _, _)
PtFind(rp, node, key) ==
    LET Absent == [err |-> Ok, value |-> None]
        In(child) == IF child.err # Ok THEN [err |-> child.err, value |-> None]
                     ELSE PtFind(rp, child.node, key)
        At(idx) ==
            IF node[1].type = "Payload"
            THEN IF /\ idx > 0
                    /\ node[idx].type = "Payload"
                    /\ KeyCompare(node[idx].key, key) = "Equal"
                 THEN [err |-> Ok, value |-> node[idx].value]
                 ELSE Absent
            ELSE IF idx > 0 /\ node[idx].type = "Ref"
            THEN In(PtLoad(rp, node[idx].hash))
            ELSE Absent
    IN  IF node = <<>> THEN Absent
        ELSE At(PartitionPoint(node, LAMBDA item : KeyCompare(item.key, key) # "Greater"))

\* PtNode::upsert: the refs that replace the reference to this node
RECURSIVE PtUpsert(_, _, _, _)
PtUpsert(rp, node, key, value) ==
    LET Chunked(c) == [err |-> Ok, repo |-> c.repo, refs |-> c.refs]
        Chunk(rp1, new_items) == Chunked(PtChunkAndSave(rp1, new_items))
        Leaf(idx) ==
            Chunk(rp, IF idx < Len(node) /\ KeyCompare(node[idx + 1].key, key) = "Equal"
                      THEN [node EXCEPT ![idx + 1] = PtPayload(key, value)]
                      ELSE InsertAt(node, idx, PtPayload(key, value)))
        Replaced(child_idx, u) ==
            IF u.err # Ok THEN u ELSE Chunk(u.repo, Splice(node, child_idx, u.refs))
        Into(child_idx, child) ==
            IF child.err # Ok THEN [err |-> child.err, repo |-> rp, refs |-> <<>>]
            ELSE Replaced(child_idx, PtUpsert(rp, child.node, key, value))
        Internal(child_idx) ==
            IF node[child_idx + 1].type = "Ref"
            THEN Into(child_idx, PtLoad(rp, node[child_idx + 1].hash))
            ELSE [err |-> "RefNotFound", repo |-> rp, refs |-> <<>>]
        ChildOf(idx) == Internal(IF idx > 0 THEN idx - 1 ELSE 0)
    IN  IF node = <<>> \/ node[1].type = "Payload"
        THEN Leaf(PartitionPoint(node, LAMBDA item : KeyCompare(item.key, key) = "Less"))
        ELSE ChildOf(PartitionPoint(node, LAMBDA item : KeyCompare(item.key, key) # "Greater"))

(***************************************************************************)
(* The facade Db (src/src/db/mod.rs).  The tables of a store are the       *)
(* record [eav, repo, refs]; eav and refs are functions on the keys        *)
(* present, repo is a function from hash to blob.                          *)
(***************************************************************************)
Hang == "hang"

\* ReadTransaction::open_table on a table no write transaction has created
TableDoesNotExist == "TableError(TableDoesNotExist)"

\* the key of the engine selection in the OPTIONS table (DbOption::Engine)
DbOption_Engine == 0

\* no handle: Db::init or Db::open has not returned one
NoDb == [engine |-> "none"]

\* postcard::to_stdvec(&Engine): the variant index
EngineEncode(engine) == IF engine = "Mst" THEN <<0>> ELSE <<1>>

\* postcard::from_bytes::<Engine>
EngineDecode(bytes) ==
    IF bytes = <<>> THEN [ok |-> FALSE, engine |-> "none"]
    ELSE IF bytes[1] = 0 THEN [ok |-> TRUE, engine |-> "Mst"]
    ELSE IF bytes[1] = 1 THEN [ok |-> TRUE, engine |-> "Pt"]
    ELSE [ok |-> FALSE, engine |-> "none"]

\* OptionTable::set_engine that leaves an engine entry already present
SetEngineIfAbsent(ot, engine) == ot @@ (DbOption_Engine :> EngineEncode(engine))

\* OptionTable::set_engine on the OPTIONS table ot
SetEngine(ot, engine) == (DbOption_Engine :> EngineEncode(engine)) @@ ot

\* OptionTable::get_engine on the OPTIONS table ot
GetEngine(ot) ==
    LET Decoded(d) == IF d.ok THEN [err |-> Ok, engine |-> d.engine]
                      ELSE [err |-> "OptionError(PostcardError)", engine |-> "none"]
    IN  IF DbOption_Engine \notin DOMAIN ot
        THEN [err |-> "OptionError(OptionNotSet)", engine |-> "none"]
        ELSE Decoded(EngineDecode(ot[DbOption_Engine]))

\* Db::init: the tables present md and the OPTIONS table ot after it; the
\* write transaction creates the OPTIONS table and no other (the secret
\* key, which no read or write looks at, is left out)
DbInit(md, ot, engine) ==
    [made |-> md \cup {OPTION_TABLE}, opts |-> SetEngine(ot, engine),
     db |-> [engine |-> engine]]

\* Db::open: a read transaction opens the OPTIONS table and reads the engine
DbOpen(md, ot) ==
    LET Got(e) == IF e.err # Ok THEN [err |-> e.err, db |-> NoDb]
                  ELSE [err |-> Ok, db |-> [engine |-> e.engine]]
    IN  IF OPTION_TABLE \notin md
        THEN [err |-> "RedbGeneric(TableDoesNotExist)", db |-> NoDb]
        ELSE Got(GetEngine(ot))

\* EavInsert that leaves the value of a key already present
EavInsertIfAbsent(eavt, key, value) == eavt @@ (key :> value)

\* eav_table.insert((entity, attribute), value)
EavInsert(eavt, key, value) == (key :> value) @@ eavt

\* refs_table.insert(name, hash)
RefsInsert(refst, name, hash) == (name :> hash) @@ refst

\* a root loop that keeps the first ref beside a node made of the others
RootLoopLopsided(rp, current_refs) ==
    LET Top(sv) == [err |-> Ok, repo |-> sv.repo,
                    refs |-> <<PtRef(current_refs[1].key, sv.hash)>>]
        Rest(sv) == Top(PtSave(sv.repo, <<current_refs[1], PtRef(current_refs[2].key, sv.hash)>>))
    IN  IF Len(current_refs) <= 1 THEN [err |-> Ok, repo |-> rp, refs |-> current_refs]
        ELSE Rest(PtSave(rp, Tail(current_refs)))

\* the loop `while current_refs.len() > 1` of Db::write (db/mod.rs 144-146).
\* One pass that returns as many refs as it was given returns chunks of one
\* item each, whose first keys are the keys it was given: every later pass
\* repeats it and the loop never ends.
RECURSIVE RootLoop(_, _)
RootLoop(rp, current_refs) ==
    LET Pass(c) == IF Len(c.refs) = Len(current_refs)
                   THEN [err |-> Hang, repo |-> c.repo, refs |-> c.refs]
                   ELSE RootLoop(c.repo, c.refs)
    IN  IF Len(current_refs) <= 1 THEN [err |-> Ok, repo |-> rp, refs |-> current_refs]
        ELSE Pass(PtChunkAndSave(rp, current_refs))

\* the Engine::Mst arm of Db::write: the repo and refs tables after it
WriteMst(rp, refst, key, value) ==
    LET Upserted(u) ==
            IF u.err # Ok THEN [err |-> u.err, repo |-> rp, refs |-> refst]
            ELSE [err |-> Ok, repo |-> u.repo,
                  refs |-> RefsInsert(refst, ROOT_REF_NAME, u.hash)]
        Loaded(root) ==
            IF root.err # Ok THEN [err |-> root.err, repo |-> rp, refs |-> refst]
            ELSE Upserted(MstUpsert(rp, root.node, key, value))
    IN  Loaded(IF ROOT_REF_NAME \in DOMAIN refst THEN MstLoad(rp, refst[ROOT_REF_NAME])
               ELSE [err |-> Ok, node |-> <<>>])

\* WritePt without the root loop: the first ref returned becomes the root
WritePtFirstRef(rp, refst, key, value) ==
    LET Upserted(u) ==
            IF u.err # Ok THEN [err |-> u.err, repo |-> rp, refs |-> refst]
            ELSE [err |-> Ok, repo |-> u.repo,
                  refs |-> IF u.refs # <<>>
                           THEN RefsInsert(refst, ROOT_REF_NAME, u.refs[1].hash)
                           ELSE refst]
        Loaded(root) ==
            IF root.err # Ok THEN [err |-> root.err, repo |-> rp, refs |-> refst]
            ELSE Upserted(PtUpsert(rp, root.node, key, value))
    IN  Loaded(IF ROOT_REF_NAME \in DOMAIN refst THEN PtLoad(rp, refst[ROOT_REF_NAME])
               ELSE [err |-> Ok, node |-> <<>>])

\* the Engine::Pt arm of Db::write
WritePt(rp, refst, key, value) ==
    LET Rooted(c) ==
            IF c.err # Ok THEN [err |-> c.err, repo |-> c.repo, refs |-> refst]
            ELSE [err |-> Ok, repo |-> c.repo,
                  refs |-> IF c.refs # <<>>
                           THEN RefsInsert(refst, ROOT_REF_NAME, c.refs[1].hash)
                           ELSE refst]
        Upserted(u) ==
            IF u.err # Ok THEN [err |-> u.err, repo |-> rp, refs |-> refst]
            ELSE Rooted(RootLoop(u.repo, u.refs))
        Loaded(root) ==
            IF root.err # Ok THEN [err |-> root.err, repo |-> rp, refs |-> refst]
            ELSE Upserted(PtUpsert(rp, root.node, key, value))
    IN  Loaded(IF ROOT_REF_NAME \in DOMAIN refst THEN PtLoad(rp, refst[ROOT_REF_NAME])
               ELSE [err |-> Ok, node |-> <<>>])

\* the engine dispatch of Db::write
EngineWrite(engine, rp, refst, key, value) ==
    IF engine = "Mst" THEN WriteMst(rp, refst, key, value)
    ELSE WritePt(rp, refst, key, value)

\* Db::read
DbRead(md, eavt, key) ==
    IF EAV_TABLE \notin md THEN [err |-> TableDoesNotExist, value |-> None]
    ELSE IF key \in DOMAIN eavt THEN [err |-> Ok, value |-> eavt[key]]
    ELSE [err |-> Ok, value |-> None]

\* Db::read_ref
DbReadRef(engine, md, rp, refst, ref_name, key) ==
    LET MstRoot(n) == IF n.err # Ok THEN [err |-> n.err, value |-> None]
                      ELSE MstFind(rp, n.node, key)
        PtRoot(n) == IF n.err # Ok THEN [err |-> n.err, value |-> None]
                     ELSE PtFind(rp, n.node, key)
    IN  IF REFS_TABLE \notin md \/ REPO_TABLE \notin md
        THEN [err |-> TableDoesNotExist, value |-> None]
        ELSE IF ref_name \in DOMAIN refst
        THEN IF engine = "Mst" THEN MstRoot(MstLoad(rp, refst[ref_name]))
             ELSE PtRoot(PtLoad(rp, refst[ref_name]))
        ELSE [err |-> "RootHashNotFound", value |-> None]

(***************************************************************************)
(* The store as a state machine: one store, one call at a time.            *)
(***************************************************************************)
EmptyTable == <<>>

\* no write transaction, no read transaction
NoWriteTxn == [pc |-> "idle"]
NoReadTxn == [pc |-> "idle"]

\* the state after Db::init on a fresh path returned the handle db
Init ==
    /\ \E engine \in Engines :
           LET Made(i) == /\ made = i.made
                          /\ opts = i.opts
                          /\ db = i.db
           IN  Made(DbInit({}, EmptyTable, engine))
    /\ level \in [Keys -> 0..MaxLevel]
    /\ db.engine = "Pt" => level = [k \in Keys |-> 0]
    /\ \A k \in Keys \ KeysOf(db.engine) : level[k] = 0
    /\ eav = EmptyTable
    /\ repo = EmptyTable
    /\ refs = EmptyTable
    /\ log = <<>>
    /\ last = [call |-> "init", key |-> None, value |-> None, outcome |-> Ok, at |-> ""]
    /\ wtx = NoWriteTxn
    /\ rtx = NoReadTxn
    /\ rolling = RollingHashNew
    /\ fed = <<>>

\* Db::write returns Ok: one committed transaction
DbWrite(key, value) ==
    /\ LET Commit(w) == /\ w.err = Ok
                        /\ eav' = EavInsert(eav, key, value)
                        /\ repo' = w.repo
                        /\ refs' = w.refs
                        /\ made' = made \cup {EAV_TABLE, REFS_TABLE, REPO_TABLE}
       IN  Commit(EngineWrite(db.engine, repo, refs, key, value))
    /\ log' = Append(log, <<key, value>>)
    /\ last' = [call |-> "write", key |-> key, value |-> value, outcome |-> Ok, at |-> ""]
    /\ UNCHANGED <<level, opts, db, wtx, rtx, rolling, fed>>

\* a call of Db::write, while the history is within its bound
Write(key, value) ==
    /\ Len(log) < MaxWrites
    /\ DbWrite(key, value)

\* Db::write never returns: the root loop does not end, nothing is committed
WriteHangs(key, value) ==
    /\ Len(log) < MaxWrites
    /\ db.engine = "Pt"
    /\ EngineWrite(db.engine, repo, refs, key, value).err = Hang
    /\ last' = [call |-> "write", key |-> key, value |-> value, outcome |-> Hang, at |-> ""]
    /\ UNCHANGED <<level, made, opts, db, eav, repo, refs, log, wtx, rtx, rolling, fed>>

\* the calls offered to the store: a key gets FirstValue first, any value later
Offered(key, value) ==
    /\ key \in KeysOf(db.engine)
    /\ value \in Values
    /\ key \in DOMAIN eav \/ value = FirstValue

Next ==
    \/ \E key \in Keys, value \in Values : Offered(key, value) /\ Write(key, value)
    \/ \E key \in Keys, value \in Values : Offered(key, value) /\ WriteHangs(key, value)

Spec == Init /\ [][Next]_vars

(***************************************************************************)
(* The life of a store file: Db::open and Db::init on a path, a handle     *)
(* that is used for writes and dropped.  The file starts without the       *)
(* OPTIONS table (a new file, or one written without Db::init), with an    *)
(* OPTIONS table that has no engine entry, or with an engine entry that is *)
(* no encoding of an Engine.  One handle exists at a time.                 *)
(***************************************************************************)
Trees == {EAV_TABLE, REPO_TABLE, REFS_TABLE}

\* an engine entry that postcard does not decode as an Engine
ForeignMarker == <<2>>

InitOpen ==
    /\ \/ made = {} /\ opts = EmptyTable
       \/ made = {OPTION_TABLE} /\ opts = EmptyTable
       \/ made = {OPTION_TABLE} /\ opts = (DbOption_Engine :> ForeignMarker)
    /\ db = NoDb
    /\ level \in [Keys -> 0..ConcMaxLevel]
    /\ \A k \in Keys \ KeysOf("Mst") : level[k] = 0
    /\ eav = EmptyTable
    /\ repo = EmptyTable
    /\ refs = EmptyTable
    /\ log = <<>>
    /\ last = [call |-> "none", key |-> None, value |-> None, outcome |-> Ok, at |-> ""]
    /\ wtx = NoWriteTxn
    /\ rtx = NoReadTxn
    /\ rolling = RollingHashNew
    /\ fed = <<>>

\* Db::open
Open ==
    /\ db = NoDb
    /\ LET Opened(r) ==
               /\ db' = r.db
               /\ last' = [call |-> "open", key |-> None, value |-> None,
                           outcome |-> r.err, at |-> ""]
       IN  Opened(DbOpen(made, opts))
    /\ UNCHANGED <<level, made, opts, eav, repo, refs, log, wtx, rtx, rolling, fed>>

\* Db::init, offered on a path that holds no tree yet
InitStore(engine) ==
    /\ db = NoDb
    /\ made \cap Trees = {}
    /\ LET Made(i) == /\ made' = i.made
                      /\ opts' = i.opts
                      /\ db' = i.db
       IN  Made(DbInit(made, opts, engine))
    /\ last' = [call |-> "init", key |-> None, value |-> None, outcome |-> Ok, at |-> ""]
    /\ UNCHANGED <<level, eav, repo, refs, log, wtx, rtx, rolling, fed>>

\* the handle is dropped
Drop ==
    /\ db # NoDb
    /\ db' = NoDb
    /\ last' = [call |-> "drop", key |-> None, value |-> None, outcome |-> Ok, at |-> ""]
    /\ UNCHANGED <<level, made, opts, eav, repo, refs, log, wtx, rtx, rolling, fed>>

NextOpen ==
    \/ Open
    \/ \E engine \in Engines : InitStore(engine)
    \/ Drop
    \/ \E key \in Keys, value \in Values :
           /\ db # NoDb
           /\ Len(log) < OpenWrites
           /\ Offered(key, value)
           /\ Write(key, value)
    \/ \E key \in Keys, value \in Values :
           /\ db # NoDb
           /\ Len(log) < OpenWrites
           /\ Offered(key, value)
           /\ WriteHangs(key, value)

SpecOpen == InitOpen /\ [][NextOpen]_vars

(***************************************************************************)
(* A long history on a Pt store: the keys of Script are written in order,  *)
(* each with FirstValue, and the latest write may be issued once more.     *)
(* Script is (m,u) (z,g) (m,g) (h,o) (u,e) (v,t) (h,p) (i,r) (h,t) (o,x)   *)
(* (y,n).                                                                  *)
(***************************************************************************)
Script ==
    <<<< <<109>>, <<117>> >>,
     << <<122>>, <<103>> >>,
     << <<109>>, <<103>> >>,
     << <<104>>, <<111>> >>,
     << <<117>>, <<101>> >>,
     << <<118>>, <<116>> >>,
     << <<104>>, <<112>> >>,
     << <<105>>, <<114>> >>,
     << <<104>>, <<116>> >>,
     << <<111>>, <<120>> >>,
     << <<121>>, <<110>> >>>>

InitScript ==
    /\ Init
    /\ db.engine = "Pt"

\* the next key of Script is written for the first time
ScriptWrite ==
    /\ Cardinality(DOMAIN eav) < Len(Script)
    /\ DbWrite(Script[Cardinality(DOMAIN eav) + 1], FirstValue)

\* the latest write is issued a second time
ScriptRepeat ==
    /\ log # <<>>
    /\ IF Len(log) = 1 THEN TRUE ELSE log[Len(log)] # log[Len(log) - 1]
    /\ DbWrite(log[Len(log)][1], log[Len(log)][2])

NextScript ==
    \/ ScriptWrite
    \/ ScriptRepeat

SpecScript == InitScript /\ [][NextScript]_vars

(***************************************************************************)
(* The store with one writer and one reader running concurrently.  The     *)
(* page store gives the writer a private copy of the tables, published by  *)
(* commit and discarded when the transaction is dropped, and gives the     *)
(* reader the tables committed when its transaction began.  wtx is the     *)
(* call of Db::write in progress, rtx the call of Db::read or Db::read_ref *)
(* in progress.                                                            *)
(***************************************************************************)
ConcKeys == {Key_tx, Key_wx}

Tables == [made |-> made, eav |-> eav, repo |-> repo, refs |-> refs]

InitConc ==
    /\ \E engine \in Engines :
           LET Made(i) == /\ made = i.made
                          /\ opts = i.opts
                          /\ db = i.db
           IN  Made(DbInit({}, EmptyTable, engine))
    /\ level \in [Keys -> 0..ConcMaxLevel]
    /\ db.engine = "Pt" => level = [k \in Keys |-> 0]
    /\ \A k \in Keys \ ConcKeys : level[k] = 0
    /\ eav = EmptyTable
    /\ repo = EmptyTable
    /\ refs = EmptyTable
    /\ log = <<>>
    /\ last = [call |-> "init", key |-> None, value |-> None, outcome |-> Ok, at |-> ""]
    /\ wtx = NoWriteTxn
    /\ rtx = NoReadTxn
    /\ rolling = RollingHashNew
    /\ fed = <<>>

\* TxnEavInsert in a transaction of its own: the insert is committed at once
TxnEavInsertCommitted(c, t) ==
    [c |-> [c EXCEPT !.made = @ \cup {EAV_TABLE},
                     !.eav = EavInsert(c.eav, t.key, t.value)],
     t |-> [t EXCEPT !.made = @ \cup {EAV_TABLE},
                     !.eav = EavInsert(t.eav, t.key, t.value)]]

\* the committed tables c and the transaction t after eav_table.insert
TxnEavInsert(c, t) ==
    [c |-> c, t |-> [t EXCEPT !.made = @ \cup {EAV_TABLE},
                              !.eav = EavInsert(t.eav, t.key, t.value)]]

\* the committed tables after write_txn.commit() of transaction t
TxnCommit(c, t) == [made |-> t.made, eav |-> t.eav, repo |-> t.repo, refs |-> t.refs]

\* self.redb.begin_write() (db/mod.rs 101)
WBegin(key, value) ==
    /\ wtx.pc = "idle"
    /\ Len(log) < ConcWrites
    /\ wtx' = [pc |-> "begun", key |-> key, value |-> value, before |-> Tables,
               made |-> made, eav |-> eav, repo |-> repo, refs |-> refs]
    /\ UNCHANGED <<level, made, opts, db, eav, repo, refs, log, last, rtx, rolling, fed>>

\* the EAV insert (db/mod.rs 104-105)
WEav ==
    /\ wtx.pc = "begun"
    /\ LET Inserted(r) == /\ wtx' = [r.t EXCEPT !.pc = "eav"]
                          /\ made' = r.c.made
                          /\ eav' = r.c.eav
                          /\ repo' = r.c.repo
                          /\ refs' = r.c.refs
       IN  Inserted(TxnEavInsert(Tables, wtx))
    /\ UNCHANGED <<level, opts, db, log, last, rtx, rolling, fed>>

\* the engine upsert and the root loop (db/mod.rs 108-124, 128-146), with
\* the new root kept for the REFS insert
WTree ==
    /\ wtx.pc = "eav"
    /\ LET Done(w) ==
               /\ w.err = Ok
               /\ wtx' = [wtx EXCEPT !.pc = "tree", !.repo = w.repo,
                                      !.made = @ \cup {REFS_TABLE, REPO_TABLE}]
                          @@ [new_refs |-> w.refs]
       IN  Done(EngineWrite(db.engine, wtx.repo, wtx.refs, wtx.key, wtx.value))
    /\ UNCHANGED <<level, made, opts, db, eav, repo, refs, log, last, rtx, rolling, fed>>

\* the root loop never ends: the call stays in it, holding its transaction
WTreeHangs ==
    /\ wtx.pc = "eav"
    /\ db.engine = "Pt"
    /\ LET Stuck(w) == /\ w.err = Hang
                       /\ wtx' = [wtx EXCEPT !.pc = "hung", !.repo = w.repo]
       IN  Stuck(EngineWrite(db.engine, wtx.repo, wtx.refs, wtx.key, wtx.value))
    /\ last' = [call |-> "write", key |-> wtx.key, value |-> wtx.value, outcome |-> Hang, at |-> ""]
    /\ UNCHANGED <<level, made, opts, db, eav, repo, refs, log, rtx, rolling, fed>>

\* refs_table.insert(ROOT_REF_NAME, ...) (db/mod.rs 125, 149)
WRefs ==
    /\ wtx.pc = "tree"
    /\ wtx' = [pc |-> "refs", key |-> wtx.key, value |-> wtx.value, before |-> wtx.before,
               made |-> wtx.made, eav |-> wtx.eav, repo |-> wtx.repo, refs |-> wtx.new_refs]
    /\ UNCHANGED <<level, made, opts, db, eav, repo, refs, log, last, rtx, rolling, fed>>

\* write_txn.commit() (db/mod.rs 154)
WCommit ==
    /\ wtx.pc = "refs"
    /\ LET Published(c) == /\ made' = c.made
                           /\ eav' = c.eav
                           /\ repo' = c.repo
                           /\ refs' = c.refs
       IN  Published(TxnCommit(Tables, wtx))
    /\ log' = Append(log, <<wtx.key, wtx.value>>)
    /\ last' = [call |-> "write", key |-> wtx.key, value |-> wtx.value, outcome |-> Ok, at |-> ""]
    /\ wtx' = NoWriteTxn
    /\ UNCHANGED <<level, opts, db, rtx, rolling, fed>>

\* the next table operation or the commit fails: `?` returns the error and
\* the transaction is dropped
WFail ==
    /\ wtx.pc \in {"begun", "eav", "tree", "refs"}
    /\ last' = [call |-> "write", key |-> None, value |-> None, outcome |-> "err", at |-> wtx.pc]
    /\ wtx' = NoWriteTxn
    /\ UNCHANGED <<level, made, opts, db, eav, repo, refs, log, rtx, rolling, fed>>

\* self.redb.begin_read() of Db::read (db/mod.rs 159) or Db::read_ref
\* (db/mod.rs 218); expect is what the committed writes so far give the key
RBegin(kind, key) ==
    /\ rtx.pc \in {"idle", "done"}
    /\ rtx' = [pc |-> "begun", kind |-> kind, key |-> key, snap |-> Tables,
               expect |-> LastWritten(log, key), had_root |-> log # <<>>]
    /\ UNCHANGED <<level, made, opts, db, eav, repo, refs, log, last, wtx, rolling, fed>>

\* Db::read: table.get on the EAV table of the read transaction
RReadEav ==
    /\ rtx.pc = "begun"
    /\ rtx.kind = "read"
    /\ rtx' = [rtx EXCEPT !.pc = "done"] @@ [result |-> DbRead(rtx.snap.made, rtx.snap.eav, rtx.key)]
    /\ UNCHANGED <<level, made, opts, db, eav, repo, refs, log, last, wtx, rolling, fed>>

\* Db::read_ref: refs_table.get(ref_name) in the read transaction
RGetRoot ==
    /\ rtx.pc = "begun"
    /\ rtx.kind = "read_ref"
    /\ rtx' = [rtx EXCEPT !.pc = "root"]
               @@ [root |-> IF ROOT_REF_NAME \in DOMAIN rtx.snap.refs
                            THEN rtx.snap.refs[ROOT_REF_NAME] ELSE None]
    /\ UNCHANGED <<level, made, opts, db, eav, repo, refs, log, last, wtx, rolling, fed>>

\* Db::read_ref: load and find in the REPO table of the same transaction
RFind ==
    /\ rtx.pc = "root"
    /\ rtx' = [pc |-> "done", kind |-> rtx.kind, key |-> rtx.key, snap |-> rtx.snap,
               expect |-> rtx.expect, had_root |-> rtx.had_root,
               result |-> IF rtx.root = None
                          THEN DbReadRef(db.engine, rtx.snap.made, rtx.snap.repo,
                                         EmptyTable, ROOT_REF_NAME, rtx.key)
                          ELSE DbReadRef(db.engine, rtx.snap.made, rtx.snap.repo,
                                         (ROOT_REF_NAME :> rtx.root), ROOT_REF_NAME, rtx.key)]
    /\ UNCHANGED <<level, made, opts, db, eav, repo, refs, log, last, wtx, rolling, fed>>

NextConc ==
    \/ \E key \in ConcKeys, value \in Values :
           (key \in DOMAIN eav \/ value = FirstValue) /\ WBegin(key, value)
    \/ WEav
    \/ WTree
    \/ WTreeHangs
    \/ WRefs
    \/ WCommit
    \/ WFail
    \/ \E kind \in {"read", "read_ref"}, key \in ConcKeys : RBegin(kind, key)
    \/ RReadEav
    \/ RGetRoot
    \/ RFind

SpecConc == InitConc /\ [][NextConc]_vars

(***************************************************************************)
(* The store of Spec under shorter histories and the levels of SpecConc,   *)
(* for properties that look back at every earlier state of the store.      *)
(***************************************************************************)
NextShort ==
    \/ \E key \in Keys, value \in Values :
           /\ Len(log) < ShortWrites
           /\ Offered(key, value)
           /\ Write(key, value)
    \/ \E key \in Keys, value \in Values :
           /\ Len(log) < ShortWrites
           /\ Offered(key, value)
           /\ WriteHangs(key, value)

SpecShort == InitConc /\ [][NextShort]_vars


(***************************************************************************)
(* Properties.                                                             *)
(***************************************************************************)
Written(lg) == {lg[i][1] : i \in 1..Len(lg)}

Overwritten(lg) ==
    {k \in Written(lg) : \E i, j \in 1..Len(lg) : i < j /\ lg[i][1] = k /\ lg[j][1] = k
                                                  /\ lg[i][2] # lg[j][2]}

\* the node under the root ref, <<>> when there is none
RootNode ==
    IF ROOT_REF_NAME \notin DOMAIN refs THEN <<>>
    ELSE IF db.engine = "Mst" THEN MstLoad(repo, refs[ROOT_REF_NAME]).node
    ELSE PtLoad(repo, refs[ROOT_REF_NAME]).node

HasRef(node) == \E i \in 1..Len(node) : node[i].type = "Ref"

\* C1: with either engine, after writes, read(e,a) is the value of the most
\* recent write to (e,a), and absent for a key never written
C1_ReadRoundTrip ==
    log # <<>> =>
        \A key \in Keys : DbRead(made, eav, key) = [err |-> Ok, value |-> LastWritten(log, key)]

C1_Witness ==
    /\ Overwritten(log) # {}
    /\ Written(log) # KeysOf(db.engine)
    /\ \A key \in Overwritten(log) : DbRead(made, eav, key).value = LastWritten(log, key)

\* C2: with the MST engine, after writes, read_ref("root", e, a) is the value
\* of the most recent write to (e,a), and absent, not an error, for a key
\* never written
C2_MstReadRefRoundTrip ==
    (db.engine = "Mst" /\ log # <<>>) =>
        \A key \in Keys :
            DbReadRef(db.engine, made, repo, refs, ROOT_REF_NAME, key)
                = [err |-> Ok, value |-> LastWritten(log, key)]

C2_Witness ==
    /\ db.engine = "Mst"
    /\ HasRef(RootNode)
    /\ Overwritten(log) # {}
    /\ \E key \in KeysOf("Mst") \ Written(log) :
           DbReadRef(db.engine, made, repo, refs, ROOT_REF_NAME, key) = [err |-> Ok, value |-> None]

\* C3: with the PT engine, after writes that complete, read_ref("root", e, a)
\* is the value of the most recent write to (e,a), and absent, not an error,
\* for a key never written, also one smaller than every stored key
C3_PtReadRefRoundTrip ==
    (db.engine = "Pt" /\ log # <<>>) =>
        \A key \in Keys :
            DbReadRef(db.engine, made, repo, refs, ROOT_REF_NAME, key)
                = [err |-> Ok, value |-> LastWritten(log, key)]

C3_Witness ==
    /\ db.engine = "Pt"
    /\ HasRef(RootNode)
    /\ Key_an \notin Written(log)
    /\ DbReadRef(db.engine, made, repo, refs, ROOT_REF_NAME, Key_an) = [err |-> Ok, value |-> None]
    /\ \E key \in Written(log) :
           DbReadRef(db.engine, made, repo, refs, ROOT_REF_NAME, key).value = LastWritten(log, key)

\* the tables of a fresh store after the writes of seq, in order; err is the
\* outcome of the first write that did not commit
FreshTables == [eav |-> EmptyTable, repo |-> EmptyTable, refs |-> EmptyTable, err |-> Ok]

RECURSIVE Replay(_, _, _)
Replay(engine, t, seq) ==
    IF seq = <<>> \/ t.err # Ok THEN t
    ELSE LET w == EngineWrite(engine, t.repo, t.refs, seq[1][1], seq[1][2])
         IN  IF w.err # Ok THEN [t EXCEPT !.err = w.err]
             ELSE Replay(engine,
                         [eav |-> EavInsert(t.eav, seq[1][1], seq[1][2]),
                          repo |-> w.repo, refs |-> w.refs, err |-> Ok],
                         Tail(seq))

\* the orders in which the writes of lg can be made
Orders(lg) == {[i \in 1..Len(lg) |-> lg[p[i]]] : p \in Permutations(1..Len(lg))}

DistinctKeys(lg) == Cardinality(Written(lg)) = Len(lg)

\* C4: MST history independence: writing the same pairs, with distinct keys,
\* into a fresh MST store in any other order yields the same root hash
C4_MstHistoryIndependence ==
    (db.engine = "Mst" /\ DistinctKeys(log)) =>
        \A o \in Orders(log) : Replay("Mst", FreshTables, o).refs = refs

\* C5: PT history independence: writing the same pairs, with distinct keys,
\* into a fresh PT store in any other order that completes yields the same
\* root hash
C5_PtHistoryIndependence ==
    (db.engine = "Pt" /\ DistinctKeys(log)) =>
        \A o \in Orders(log) :
            LET r == Replay("Pt", FreshTables, o)
            IN  r.err = Ok => r.refs = refs

\* every hash met walking down from h is a key of rp whose blob hashes to it
\* and decodes as a node of the engine
RECURSIVE Closed(_, _, _)
Closed(engine, rp, h) ==
    /\ h \in DOMAIN rp
    /\ Blake3(rp[h]) = h
    /\ LET n == IF engine = "Mst" THEN MstLoad(rp, h) ELSE PtLoad(rp, h)
       IN  /\ n.err = Ok
           /\ \A i \in 1..Len(n.node) :
                  n.node[i].type = "Ref" => Closed(engine, rp, n.node[i].hash)

\* C9: every REPO entry is stored under the hash of its blob, and the root
\* ref and every Ref reachable from it name entries of REPO
C9_ContentAddressedClosed ==
    /\ \A h \in DOMAIN repo : Blake3(repo[h]) = h
    /\ \A name \in DOMAIN refs : Closed(db.engine, repo, refs[name])

C9_Witness ==
    /\ HasRef(RootNode)
    /\ Cardinality(DOMAIN repo) >= 4
    /\ Closed(db.engine, repo, refs[ROOT_REF_NAME])

\* the keys met by an in-order walk of the MST node stored under h
RECURSIVE MstInOrder(_, _)
MstInOrder(rp, h) ==
    LET node == MstLoad(rp, h).node
        Walk[i \in 0..Len(node)] ==
            IF i = 0 THEN <<>>
            ELSE Walk[i - 1] \o (IF node[i].type = "Payload" THEN <<node[i].key>>
                                 ELSE MstInOrder(rp, node[i].hash))
    IN  Walk[Len(node)]

StrictlyIncreasing(ks) ==
    \A i \in 1..(Len(ks) - 1) : KeyCompare(ks[i], ks[i + 1]) = "Less"

\* the number of nodes on the longest path down from the MST node under h
RECURSIVE MstDepth(_, _)
MstDepth(rp, h) ==
    LET node == MstLoad(rp, h).node
        ds == {MstDepth(rp, node[i].hash) : i \in {j \in 1..Len(node) : node[j].type = "Ref"}}
    IN  1 + (IF ds = {} THEN 0 ELSE Max(ds))

\* C10: an in-order walk of the MST under "root" yields strictly increasing
\* keys, none twice
C10_MstInOrderIncreasing ==
    (db.engine = "Mst" /\ ROOT_REF_NAME \in DOMAIN refs) =>
        StrictlyIncreasing(MstInOrder(repo, refs[ROOT_REF_NAME]))

C10_Witness ==
    /\ db.engine = "Mst"
    /\ ROOT_REF_NAME \in DOMAIN refs
    /\ MstDepth(repo, refs[ROOT_REF_NAME]) >= 3
    /\ Len(MstInOrder(repo, refs[ROOT_REF_NAME])) = 4
    /\ StrictlyIncreasing(MstInOrder(repo, refs[ROOT_REF_NAME]))

\* in the tables t the EAV index and the tree under "root" hold the same
\* entries: no write is half applied
TablesAgree(t) ==
    IF ROOT_REF_NAME \in DOMAIN t.refs
    THEN \A key \in Keys :
             DbReadRef(db.engine, t.made, t.repo, t.refs, ROOT_REF_NAME, key) = DbRead(t.made, t.eav, key)
    ELSE t.eav = EmptyTable /\ t.made = {OPTION_TABLE}

\* C7: a reader running concurrently with Db::write works on tables in which
\* EAV, REPO and REFS are all from before or all from after the write, and
\* gets what the writes committed before it began give, whatever commits later
C7_AtomicWrite ==
    /\ rtx.pc # "idle" => TablesAgree(rtx.snap)
    /\ rtx.pc = "done" =>
           rtx.result = IF ~rtx.had_root
                        THEN [err |-> TableDoesNotExist, value |-> None]
                        ELSE [err |-> Ok, value |-> rtx.expect]

C7_Witness ==
    /\ rtx.pc = "done"
    /\ rtx.kind = "read_ref"
    /\ rtx.had_root
    /\ rtx.key \in DOMAIN rtx.snap.eav
    /\ rtx.snap.refs # refs
    /\ LastWritten(log, rtx.key) # rtx.expect
    /\ rtx.result = [err |-> Ok, value |-> rtx.expect]

\* C8: when a step of Db::write fails, the committed EAV, REPO and REFS are
\* what they were when the call began
C8_FailedWriteChangesNothing ==
    [][(wtx.pc # "idle" /\ wtx'.pc = "idle" /\ last'.outcome = "err") =>
           (/\ made' = wtx.before.made
            /\ eav' = wtx.before.eav
            /\ repo' = wtx.before.repo
            /\ refs' = wtx.before.refs)]_vars

C8_Witness ==
    /\ wtx.pc = "idle"
    /\ last.outcome = "err"
    /\ last.at = "refs"
    /\ log # <<>>
    /\ Written(log) # ConcKeys
    /\ TablesAgree(Tables)

\* this step is a committed Db::write of <<key, value>>
Committed(key, value) == log' = Append(log, <<key, value>>)

\* C11: with the MST engine, a write to a key that is present changes the
\* root hash if and only if it changes the value of the key
C11_MstUpdateChangesRootIffValue ==
    [][\A key \in Keys, value \in Values :
           (db.engine = "Mst" /\ Committed(key, value) /\ key \in DOMAIN eav) =>
               ((refs'[ROOT_REF_NAME] # refs[ROOT_REF_NAME]) <=> (value # eav[key]))]_vars

\* this step commits again the pair the last committed write wrote
Repeated ==
    /\ log # <<>>
    /\ Committed(log[Len(log)][1], log[Len(log)][2])

\* C12: with either engine, the second of two successive writes of the same
\* (e, a, v) adds no REPO entry and leaves REFS["root"] as the first set it
C12_RepeatedWriteAddsNothing ==
    [][Repeated => (repo' = repo /\ refs' = refs)]_vars

\* C13: a step never removes a REPO entry and never changes the blob stored
\* under a hash that is present
C13_RepoMonotone ==
    [][\A h \in DOMAIN repo : h \in DOMAIN repo' /\ repo'[h] = repo[h]]_vars

\* the tables as they were after the first n committed writes
Past(n) == Replay(db.engine, FreshTables, SubSeq(log, 1, n))

\* the root before the latest write is no longer the root and is still in REPO
C13_Witness ==
    /\ Len(log) >= 2
    /\ Past(Len(log) - 1).refs[ROOT_REF_NAME] # refs[ROOT_REF_NAME]
    /\ Past(Len(log) - 1).refs[ROOT_REF_NAME] \in DOMAIN repo

\* what the tree under the root of tables t yields for key, walked in REPO rp
Resolve(rp, t, key) == DbReadRef(db.engine, made, rp, t.refs, ROOT_REF_NAME, key)

\* the tree under the root of tables p yields in REPO what it yields in p.repo
ResolvesAsIn(p) ==
    \A key \in Keys \cup DOMAIN eav : Resolve(repo, p, key) = Resolve(p.repo, p, key)

\* ResolvesAsIn for the tables after each write of seq made on tables t
RECURSIVE EveryRootResolves(_, _)
EveryRootResolves(t, seq) ==
    LET Then(p) == ResolvesAsIn(p) /\ EveryRootResolves(p, Tail(seq))
    IN  IF seq = <<>> THEN TRUE
        ELSE Then(Replay(db.engine, t, <<Head(seq)>>))

\* C14: the tree under every hash that was the root after some committed
\* write yields now, for every key, what it yielded when it was the root
C14_OldRootsResolveTheSame == EveryRootResolves(FreshTables, log)

\* an earlier root still yields a value that a later write has replaced
C14_Witness ==
    \E n \in 1..Len(log) :
        \E key \in DOMAIN eav :
            /\ Resolve(repo, Past(n), key).err = Ok
            /\ Resolve(repo, Past(n), key).value # None
            /\ Resolve(repo, Past(n), key).value # Resolve(repo, Tables, key).value
            /\ HasRef(RootNode)

\* the ref names a caller passes to Db::read_ref
RefNames == {ROOT_REF_NAME, "other"}

\* C15: in every state of the store, Db::read_ref with a ref name that REFS
\* does not hold fails with RootHashNotFound
C15_AbsentRefIsRootHashNotFound ==
    \A ref_name \in RefNames \ DOMAIN refs :
        \A key \in Keys :
            DbReadRef(db.engine, made, repo, refs, ref_name, key).err = "RootHashNotFound"

\* C16: on a store that Db::init made and on which no write was committed,
\* Db::read returns Ok(None) for every key
C16_ReadBeforeAnyWriteIsNone ==
    log = <<>> =>
        \A key \in Keys : DbRead(made, eav, key) = [err |-> Ok, value |-> None]

\* C17: a Db::open that fails because the OPTIONS table is missing, has no
\* engine entry or holds a marker that is no engine, fails with NotInitialized
C17_OpenFailsNotInitialized ==
    (last.call = "open" /\ last.outcome # Ok) => last.outcome = "NotInitialized"

\* this step is a Db::init with engine that succeeded
Initialized(engine) == last'.call = "init" /\ db' = [engine |-> engine]

\* C18: after Db::init(path, engine), Db::open succeeds and reports engine,
\* no other call changes what Db::open reports, a handle holds the engine of
\* its store, writes dispatch on it and leave the engine option as it is
C18_EngineRoundTrip ==
    [][/\ \A engine \in Engines :
              Initialized(engine) =>
                  DbOpen(made', opts') = [err |-> Ok, db |-> [engine |-> engine]]
       /\ (\A engine \in Engines : ~Initialized(engine)) =>
              DbOpen(made', opts') = DbOpen(made, opts)
       /\ db' # NoDb => db' = DbOpen(made', opts').db
       /\ \A key \in Keys, value \in Values :
              Committed(key, value) =>
                  /\ opts' = opts
                  /\ repo' = EngineWrite(DbOpen(made, opts).db.engine, repo, refs, key, value).repo
                  /\ refs' = EngineWrite(DbOpen(made, opts).db.engine, repo, refs, key, value).refs]_vars

\* a store was initialized, written and closed, and Db::open returned a handle
C18_Witness ==
    /\ last.call = "open"
    /\ last.outcome = Ok
    /\ db.engine = "Pt"
    /\ log # <<>>

\* C19: the root loop of the Engine::Pt arm of Db::write ends: no call of
\* Db::write stays in `while current_refs.len() > 1` for ever
C19_PtRootLoopTerminates ==
    last.call = "write" => last.outcome # Hang

\* the payloads of the MST node under h, and of every node below it, have
\* one level per node
RECURSIVE SameLevel(_, _)
SameLevel(rp, h) ==
    LET node == MstLoad(rp, h).node
    IN  /\ \A i, j \in 1..Len(node) :
               (node[i].type = "Payload" /\ node[j].type = "Payload") =>
                   CalcLevel(node[i].key) = CalcLevel(node[j].key)
        /\ \A i \in 1..Len(node) :
               node[i].type = "Ref" => SameLevel(rp, node[i].hash)

\* C20: in every MST node reachable from the root, all payloads have the
\* same level
C20_MstSameLevel ==
    (db.engine = "Mst" /\ ROOT_REF_NAME \in DOMAIN refs) =>
        SameLevel(repo, refs[ROOT_REF_NAME])

\* the root has a child and two payloads or more
C20_Witness ==
    /\ db.engine = "Mst"
    /\ HasRef(RootNode)
    /\ Cardinality({i \in 1..Len(RootNode) : RootNode[i].type = "Payload"}) >= 2
    /\ SameLevel(repo, refs[ROOT_REF_NAME])

\* the keys of the payloads of a node
PayloadKeys(node) == {node[i].key : i \in {j \in 1..Len(node) : node[j].type = "Payload"}}

\* below the MST node under h, the payloads of a child have a level lower
\* than every payload of the node that holds the Ref to it
RECURSIVE LevelsDescend(_, _)
LevelsDescend(rp, h) ==
    LET node == MstLoad(rp, h).node
    IN  \A i \in 1..Len(node) :
            node[i].type = "Ref" =>
                /\ \A p \in PayloadKeys(node) :
                       \A q \in PayloadKeys(MstLoad(rp, node[i].hash).node) :
                           CalcLevel(q) < CalcLevel(p)
                /\ LevelsDescend(rp, node[i].hash)

\* C21: in every MST reachable by writes, the payloads of a child node have
\* a level strictly lower than the payloads of the node that references it
C21_MstLevelsDescend ==
    (db.engine = "Mst" /\ ROOT_REF_NAME \in DOMAIN refs) =>
        LevelsDescend(repo, refs[ROOT_REF_NAME])

\* the entries <<key, value>> met by an in-order walk of the MST node under h
RECURSIVE MstEntries(_, _)
MstEntries(rp, h) ==
    LET node == MstLoad(rp, h).node
        Walk[i \in 0..Len(node)] ==
            IF i = 0 THEN <<>>
            ELSE Walk[i - 1] \o (IF node[i].type = "Payload"
                                 THEN << <<node[i].key, node[i].value>> >>
                                 ELSE MstEntries(rp, node[i].hash))
    IN  Walk[Len(node)]

\* MstNode::split may be called on the node under h with key: the walk of the
\* node is strictly increasing and does not meet key
Splittable(rp, h, key) ==
    /\ StrictlyIncreasing(MstInOrder(rp, h))
    /\ \A i \in 1..Len(MstInOrder(rp, h)) : MstInOrder(rp, h)[i] # key

\* the halves s of the split of the node under h at key: left below key,
\* right above key, and left followed by right is the walk of the node
SplitHalves(rp, h, key, s) ==
    /\ s.err = Ok
    /\ \A i \in 1..Len(MstInOrder(s.repo, s.left)) :
           KeyCompare(MstInOrder(s.repo, s.left)[i], key) = "Less"
    /\ \A i \in 1..Len(MstInOrder(s.repo, s.right)) :
           KeyCompare(MstInOrder(s.repo, s.right)[i], key) = "Greater"
    /\ MstEntries(s.repo, s.left) \o MstEntries(s.repo, s.right) = MstEntries(rp, h)

\* C22: MstNode::split of a well formed stored node at a key that is not in
\* its subtree returns a left node with the entries below the key and a right
\* node with the entries above it, none lost and none twice
C22_MstSplitCorrect ==
    db.engine = "Mst" =>
        \A h \in DOMAIN repo :
            \A key \in Keys :
                Splittable(repo, h, key) =>
                    SplitHalves(repo, h, key, MstSplit(repo, MstLoad(repo, h).node, key))

\* the root can be split at a key that lies inside one of its children, with
\* entries on both sides
C22_Witness ==
    /\ db.engine = "Mst"
    /\ HasRef(RootNode)
    /\ \E key \in Keys :
           /\ Splittable(repo, refs[ROOT_REF_NAME], key)
           /\ \E i \in 1..Len(RootNode) :
                  /\ RootNode[i].type = "Ref"
                  /\ \E j, k \in 1..Len(MstInOrder(repo, RootNode[i].hash)) :
                         /\ KeyCompare(MstInOrder(repo, RootNode[i].hash)[j], key) = "Less"
                         /\ KeyCompare(MstInOrder(repo, RootNode[i].hash)[k], key) = "Greater"

\* the keys of S in increasing order
RECURSIVE SortedKeys(_)
SortedKeys(S) ==
    IF S = {} THEN <<>>
    ELSE LET Then(m) == <<m>> \o SortedKeys(S \ {m})
         IN  Then(CHOOSE k \in S : \A o \in S : KeyCompare(k, o) # "Greater")

\* the leaf item list that holds the keys of S with their values in EAV
LeafItems(S) == [i \in 1..Cardinality(S) |-> PtPayload(SortedKeys(S)[i], eav[SortedKeys(S)[i]])]

\* item lists given to PtNode::chunk_and_save: the leaf lists over the keys
\* written and the item lists of the nodes in REPO
ChunkInputs ==
    {LeafItems(S) : S \in SUBSET (DOMAIN eav) \ {{}}}
        \cup {PtLoad(repo, h).node : h \in DOMAIN repo}

\* the positions of items after which a chunk ends: the rolling hash, fed
\* the key bytes of the items from the first on, is at a boundary, or the
\* list ends
ChunkEnds(items) ==
    LET HashAfter[i \in 0..Len(items)] ==
            IF i = 0 THEN RollingHashNew
            ELSE FeedBytes(HashAfter[i - 1], KeyBytes(items[i].key))
    IN  {i \in 1..Len(items) : IsBoundary(HashAfter[i])} \cup {Len(items)}

\* the refs returned for items name, in order, the chunks that end at ends
Partitions(items, ends, c) ==
    /\ Len(c.refs) = Cardinality(ends)
    /\ \A j \in 1..Len(c.refs) :
           LET Chunk(first, end) ==
                   /\ first <= end
                   /\ c.refs[j].type = "Ref"
                   /\ c.refs[j].key = items[first].key
                   /\ PtLoad(c.repo, c.refs[j].hash) =
                          [err |-> Ok, node |-> SubSeq(items, first, end)]
           IN  Chunk(1 + Max({0} \cup {e \in ends : Cardinality({d \in ends : d <= e}) < j}),
                     CHOOSE e \in ends : Cardinality({d \in ends : d <= e}) = j)

\* C23: PtNode::chunk_and_save cuts a non-empty item list into non-empty
\* chunks, in order and without loss, each ending after an item at which the
\* rolling hash is at a boundary or at the end of the list, and each Ref has
\* the key of the first item of its chunk
C23_PtChunkAndSavePartitions ==
    db.engine = "Pt" =>
        \A items \in ChunkInputs :
            Partitions(items, ChunkEnds(items), PtChunkAndSave(repo, items))

\* a list is cut into several chunks, one of them of several items
C23_Witness ==
    /\ db.engine = "Pt"
    /\ \E items \in ChunkInputs :
           /\ Cardinality(ChunkEnds(items)) >= 2
           /\ Len(items) > Cardinality(ChunkEnds(items))
           /\ Partitions(items, ChunkEnds(items), PtChunkAndSave(repo, items))

\* the keys met by an in-order walk of the PT node stored under h
RECURSIVE PtInOrder(_, _)
PtInOrder(rp, h) ==
    LET node == PtLoad(rp, h).node
        Walk[i \in 0..Len(node)] ==
            IF i = 0 THEN <<>>
            ELSE Walk[i - 1] \o (IF node[i].type = "Payload" THEN <<node[i].key>>
                                 ELSE PtInOrder(rp, node[i].hash))
    IN  Walk[Len(node)]

\* the item keys of the PT node under h, and of every node below it, are
\* strictly increasing
RECURSIVE PtNodesSorted(_, _)
PtNodesSorted(rp, h) ==
    LET node == PtLoad(rp, h).node
    IN  /\ StrictlyIncreasing([i \in 1..Len(node) |-> node[i].key])
        /\ \A i \in 1..Len(node) :
               node[i].type = "Ref" => PtNodesSorted(rp, node[i].hash)

\* C24: after completed writes the items of every PT node under "root" are
\* strictly increasing by key and the in-order walk yields the stored keys,
\* each once, in increasing order
C24_PtInOrderIncreasing ==
    (db.engine = "Pt" /\ ROOT_REF_NAME \in DOMAIN refs) =>
        /\ PtNodesSorted(repo, refs[ROOT_REF_NAME])
        /\ PtInOrder(repo, refs[ROOT_REF_NAME]) = SortedKeys(DOMAIN eav)

\* a tree of several nodes that holds four keys
C24_Witness ==
    /\ db.engine = "Pt"
    /\ HasRef(RootNode)
    /\ Cardinality(DOMAIN eav) >= 4
    /\ PtInOrder(repo, refs[ROOT_REF_NAME]) = SortedKeys(DOMAIN eav)

\* every Ref of the PT node under h, and of every node below it, has the
\* least key of the subtree it points to
RECURSIVE PtFirstKeys(_, _)
PtFirstKeys(rp, h) ==
    LET node == PtLoad(rp, h).node
    IN  \A i \in 1..Len(node) :
            node[i].type = "Ref" =>
                /\ PtInOrder(rp, node[i].hash) # <<>>
                /\ node[i].key = PtInOrder(rp, node[i].hash)[1]
                /\ \A j \in 1..Len(PtInOrder(rp, node[i].hash)) :
                       KeyCompare(node[i].key, PtInOrder(rp, node[i].hash)[j]) # "Greater"
                /\ PtFirstKeys(rp, node[i].hash)

\* C25: in every PT reachable by writes the first_key of every Ref is the
\* least key of the subtree the Ref points to
C25_PtFirstKeyIsLeast ==
    (db.engine = "Pt" /\ ROOT_REF_NAME \in DOMAIN refs) =>
        PtFirstKeys(repo, refs[ROOT_REF_NAME])

\* the latest write put a key below every key stored before into a tree of
\* several nodes
C25_Witness ==
    /\ db.engine = "Pt"
    /\ HasRef(RootNode)
    /\ Len(log) >= 3
    /\ HasRef(PtLoad(Past(Len(log) - 1).repo, Past(Len(log) - 1).refs[ROOT_REF_NAME]).node)
    /\ \A k \in DOMAIN Past(Len(log) - 1).eav : KeyCompare(log[Len(log)][1], k) = "Less"
    /\ PtFirstKeys(repo, refs[ROOT_REF_NAME])

\* the items of a node are all Payload or all Ref
Uniform(node) ==
    \A i, j \in 1..Len(node) : node[i].type = node[j].type

\* the depths, counted from the PT node under h, at which leaves lie
RECURSIVE LeafDepths(_, _)
LeafDepths(rp, h) ==
    LET node == PtLoad(rp, h).node
    IN  IF node = <<>> \/ node[1].type = "Payload" THEN {1}
        ELSE UNION {{1 + d : d \in LeafDepths(rp, node[i].hash)} :
                       i \in {j \in 1..Len(node) : node[j].type = "Ref"}}

\* C26: every PT node that Db::write stored is all Payload items or all Ref
\* items, and all leaves under "root" are at the same depth
C26_PtUniformAndBalanced ==
    db.engine = "Pt" =>
        /\ \A h \in DOMAIN repo : Uniform(PtLoad(repo, h).node)
        /\ ROOT_REF_NAME \in DOMAIN refs =>
               Cardinality(LeafDepths(repo, refs[ROOT_REF_NAME])) = 1

\* a tree whose leaves lie below the root, with several children
C26_Witness ==
    /\ db.engine = "Pt"
    /\ HasRef(RootNode)
    /\ Len(RootNode) >= 2
    /\ Cardinality(LeafDepths(repo, refs[ROOT_REF_NAME])) = 1

(***************************************************************************)
(* A RollingHash driven on its own: bytes are fed one at a time to a       *)
(* rolling made by RollingHash::new.  The sequences fed are runs of Filler  *)
(* with at most MaxOther bytes of another value.                           *)
(***************************************************************************)
MaxFed == 33
MaxOther == 2
Filler == 1
HashBytes == {1, 5, 7}

\* how many bytes of a sequence are not Filler
Others(bytes) == Cardinality({i \in 1..Len(bytes) : bytes[i] # Filler})

InitHash ==
    /\ level = [k \in Keys |-> 0]
    /\ made = {}
    /\ opts = EmptyTable
    /\ db = NoDb
    /\ eav = EmptyTable
    /\ repo = EmptyTable
    /\ refs = EmptyTable
    /\ log = <<>>
    /\ last = [call |-> "new", key |-> None, value |-> None, outcome |-> Ok, at |-> ""]
    /\ wtx = NoWriteTxn
    /\ rtx = NoReadTxn
    /\ rolling = RollingHashNew
    /\ fed = <<>>

\* rolling.update(b)
Update(b) ==
    /\ Len(fed) < MaxFed
    /\ Others(Append(fed, b)) <= MaxOther
    /\ rolling' = RollingHashUpdate(rolling, b)
    /\ fed' = Append(fed, b)
    /\ UNCHANGED <<level, made, opts, db, eav, repo, refs, log, last, wtx, rtx>>

NextHash == \E b \in HashBytes : Update(b)

SpecHash == InitHash /\ [][NextHash]_vars

\* the last WINDOW_SIZE bytes of a sequence
LastWindow(bytes) == SubSeq(bytes, Len(bytes) - WINDOW_SIZE + 1, Len(bytes))

\* two rollings agree on the sum and on is_boundary
SameHash(a, b) ==
    /\ a.sum = b.sum
    /\ IsBoundary(a) = IsBoundary(b)

\* C27: after at least WINDOW_SIZE bytes the sum and is_boundary of a
\* RollingHash are those of a new RollingHash fed the last WINDOW_SIZE bytes
\* alone
C27_RollingHashWindowPure ==
    Len(fed) >= WINDOW_SIZE =>
        SameHash(rolling, FeedBytes(RollingHashNew, LastWindow(fed)))

(***************************************************************************)
(* Db::print_ref_recursive running beside one writer.  rtx is the call in  *)
(* progress: snap holds the tables of the read transaction begun first,    *)
(* nodes the tables of the read transaction the REPO table is opened in.   *)
(***************************************************************************)
\* self.redb.begin_read() (db/mod.rs 293)
PBegin ==
    /\ rtx.pc \in {"idle", "done", "printed"}
    /\ rtx' = [pc |-> "begun", kind |-> "print", snap |-> Tables]
    /\ UNCHANGED <<level, made, opts, db, eav, repo, refs, log, last, wtx, rolling, fed>>

\* read_txn.open_table(REFS_TABLE)? and refs_table.get(ref_name)?
\* (db/mod.rs 294-295); without the ref the call prints a notice and returns
PGetRoot ==
    /\ rtx.pc = "begun"
    /\ rtx.kind = "print"
    /\ rtx' = IF REFS_TABLE \notin rtx.snap.made
              THEN [pc |-> "done", kind |-> "print", snap |-> rtx.snap,
                    result |-> TableDoesNotExist]
              ELSE IF ROOT_REF_NAME \notin DOMAIN rtx.snap.refs
              THEN [pc |-> "done", kind |-> "print", snap |-> rtx.snap, result |-> Ok]
              ELSE [pc |-> "root", kind |-> "print", snap |-> rtx.snap,
                    root |-> rtx.snap.refs[ROOT_REF_NAME]]
    /\ UNCHANGED <<level, made, opts, db, eav, repo, refs, log, last, wtx, rolling, fed>>

\* self.redb.begin_read() and read_txn.open_table(REPO_TABLE)?
\* (db/mod.rs 296-297)
PBeginRepo ==
    /\ rtx.pc = "root"
    /\ rtx' = [pc |-> "repo", kind |-> "print", snap |-> rtx.snap,
               root |-> rtx.root, nodes |-> Tables]
    /\ UNCHANGED <<level, made, opts, db, eav, repo, refs, log, last, wtx, rolling, fed>>

\* ptree::print_tree over the REPO table opened last (db/mod.rs 299-320)
PPrint ==
    /\ rtx.pc = "repo"
    /\ rtx' = [rtx EXCEPT !.pc = "printed"]
    /\ UNCHANGED <<level, made, opts, db, eav, repo, refs, log, last, wtx, rolling, fed>>

NextPrint ==
    \/ \E key \in ConcKeys, value \in Values :
           (key \in DOMAIN eav \/ value = FirstValue) /\ WBegin(key, value)
    \/ WEav
    \/ WTree
    \/ WTreeHangs
    \/ WRefs
    \/ WCommit
    \/ WFail
    \/ PBegin
    \/ PGetRoot
    \/ PBeginRepo
    \/ PPrint

SpecPrint == InitConc /\ [][NextPrint]_vars

\* C28: a tree walk reads its nodes from the tables of the read transaction
\* that gave it the root hash, also when a write commits between the two
\* reads
C28_WalkReadsOneSnapshot ==
    rtx.pc \in {"repo", "printed"} => rtx.nodes = rtx.snap

(***************************************************************************)
(* The life of a store file where Db::init is also called on a path that   *)
(* already holds the trees of earlier writes.                              *)
(***************************************************************************)
\* Db::init on a path that holds trees
Reinit(engine) ==
    /\ db = NoDb
    /\ made \cap Trees # {}
    /\ LET Made(i) == /\ made' = i.made
                      /\ opts' = i.opts
                      /\ db' = i.db
       IN  Made(DbInit(made, opts, engine))
    /\ last' = [call |-> "init", key |-> None, value |-> None, outcome |-> Ok, at |-> "data"]
    /\ UNCHANGED <<level, eav, repo, refs, log, wtx, rtx, rolling, fed>>

NextReinit ==
    \/ NextOpen
    \/ \E engine \in Engines : Reinit(engine)

SpecReinit == InitOpen /\ [][NextReinit]_vars

\* read_ref of "root" decodes the tree for every key
ReadsAll(engine, md, rp, refst) ==
    \A key \in Keys :
        DbReadRef(engine, md, rp, refst, ROOT_REF_NAME, key).err = Ok

\* C29: Db::init on a store with data leaves EAV, REPO and REFS as they were
\* and records its engine in OPTIONS, and read_ref with the handle it returns
\* still decodes the tree under "root"
C29_ReinitKeepsStoreReadable ==
    [][last'.call = "init" /\ last'.at = "data" =>
           /\ eav' = eav
           /\ repo' = repo
           /\ refs' = refs
           /\ GetEngine(opts').engine = db'.engine
           /\ ReadsAll(db'.engine, made', repo', refs')]_vars

(***************************************************************************)
(* test_height_growth of pt.rs: the String keys k00, k01, ... are upserted *)
(* in order into a tree that starts as the saved empty node; after each    *)
(* upsert the refs returned are collapsed to one root, as Db::write does.  *)
(***************************************************************************)
NumTestKeys == 100

\* two decimal digits, more from 100 on: the bytes of format!("{:02}", i)
Digits(i) ==
    IF i < 100 THEN <<48 + (i \div 10), 48 + (i % 10)>>
    ELSE <<48 + (i \div 100), 48 + ((i \div 10) % 10), 48 + (i % 10)>>

\* format!("k{:02}", i) as a key and format!("v{:02}", i)
TestKey(i) == << <<107>> \o Digits(i), <<>> >>
TestValue(i) == <<118>> \o Digits(i)

InitHeight ==
    /\ level = [k \in Keys |-> 0]
    /\ made = {REPO_TABLE}
    /\ opts = EmptyTable
    /\ db = NoDb
    /\ eav = EmptyTable
    /\ LET Saved(sv) == /\ repo = sv.repo
                        /\ refs = (ROOT_REF_NAME :> sv.hash)
       IN  Saved(PtSave(EmptyTable, <<>>))
    /\ log = <<>>
    /\ last = [call |-> "save", key |-> None, value |-> None, outcome |-> Ok, at |-> ""]
    /\ wtx = NoWriteTxn
    /\ rtx = NoReadTxn
    /\ rolling = RollingHashNew
    /\ fed = <<>>

\* one pass of the loop of the test (pt.rs 519-536): load, upsert, collapse
\* the refs, keep the hash of the ref that is left
TestUpsert ==
    /\ Len(log) < NumTestKeys
    /\ last.outcome = Ok
    /\ LET Done(key, value, w) ==
               /\ repo' = w.repo
               /\ refs' = w.refs
               /\ log' = IF w.err = Ok THEN Append(log, <<key, value>>) ELSE log
               /\ last' = [call |-> "upsert", key |-> key, value |-> value,
                           outcome |-> w.err, at |-> ""]
           Pass(key, value) == Done(key, value, WritePt(repo, refs, key, value))
       IN  Pass(TestKey(Len(log)), TestValue(Len(log)))
    /\ UNCHANGED <<level, made, opts, db, eav, wtx, rtx, rolling, fed>>

SpecHeight == InitHeight /\ [][TestUpsert]_vars

\* PtNode::height of the node stored under h
RECURSIVE PtHeight(_, _)
PtHeight(rp, h) ==
    LET Of(node) == IF node = <<>> THEN 1
                    ELSE IF node[1].type = "Ref" THEN 1 + PtHeight(rp, node[1].hash)
                    ELSE 1
    IN  Of(PtLoad(rp, h).node)

\* C30: after each upsert of the keys k00..k99, with the refs collapsed to one
\* root, the height of the tree is at most 3
C30_PtHeightAtMostThree ==
    /\ last.outcome = Ok
    /\ PtHeight(repo, refs[ROOT_REF_NAME]) <= 3

\* all the keys of the test are in the tree
C30_Witness ==
    /\ Len(log) = NumTestKeys
    /\ log[NumTestKeys][1] = TestKey(NumTestKeys - 1)
    /\ PtInOrder(repo, refs[ROOT_REF_NAME]) = [i \in 1..NumTestKeys |-> TestKey(i - 1)]
    /\ PtHeight(repo, refs[ROOT_REF_NAME]) <= 3

====
